---- MODULE Spec2Model ----
(***************************************************************************)
(* Model of the Fingrid Easy Setup integration: the poll cycle of          *)
(* FingridDataUpdateCoordinator (coordinator.py) and the sensors that      *)
(* present its snapshots (sensor.py).                                      *)
(***************************************************************************)
EXTENDS Integers, Sequences, FiniteSets, TLC

\* ------------------------------------------------------------------ bounds
\* number of distinct interval timestamps the API can report
NumTimes == 2

\* --------------------------------------------------------------- constants
DATASET_ID_POWER_SYSTEM_STATE == "209"
DATASET_ID_GRID_FREQUENCY == "177"
DATASET_ID_ELECTRICITY_SHORTAGE_STATUS == "336"

AVAILABLE_SENSORS_DATA ==
    { DATASET_ID_POWER_SYSTEM_STATE,
      DATASET_ID_GRID_FREQUENCY,
      DATASET_ID_ELECTRICITY_SHORTAGE_STATUS }

\* asyncio.sleep(7) between two requests
PacingDelay == 7

\* ------------------------------------------------------------ value domain
\* Python values are tagged records, so that any two of them can be compared.
None == [k |-> "None"]
Unbound == [k |-> "unbound"]        \* a local name that was never assigned

\* JSON values: type tag, number (floats in tenths), text
Missing == [t |-> "missing", n |-> 0, s |-> ""]  \* a key that is not in the dict
IntVal(n) == [t |-> "int", n |-> n, s |-> ""]
FloatVal(tenths) == [t |-> "float", n |-> tenths, s |-> ""]
StrVal(str) == [t |-> "str", n |-> 0, s |-> str]
BoolVal(b) == [t |-> "bool", n |-> b, s |-> ""]   \* true is 1, false is 0

Times == 1 .. NumTimes
TimeVal(t) == [t |-> "time", n |-> t, s |-> ""]

\* one element of the API's data list: {datasetId, value, startTime, endTime}
Obs(d, v, s, e) ==
    [k |-> "obs", datasetId |-> d, value |-> v, startTime |-> s, endTime |-> e]

\* the elements the API serves for dataset d in the model of the poll cycle
ApiObservations(d) ==
    { Obs(d, IntVal(4), TimeVal(t), TimeVal(t)) : t \in Times }

Range(s) == { s[i] : i \in DOMAIN s }

\* the data lists the API serves for dataset d (pageSize=1 asks for one element)
DataLists(d) ==
    {<<>>}
    \cup { <<o>> : o \in ApiObservations(d) }
    \cup { <<q[1], q[2]>> : q \in { x \in ApiObservations(d) \X ApiObservations(d) :
                                     x[1] # x[2] } }

\* response bodies of a 200
Body(shape, data) == [shape |-> shape, data |-> data]
JsonBodies(d) ==
    { Body("object_data_list", l) : l \in DataLists(d) }
    \cup { Body("object_no_data_key", <<>>),
           Body("object_data_not_list", <<>>),
           Body("not_object", <<>>) }
Bodies(d) == JsonBodies(d) \cup { Body("not_json", <<>>) }

\* what session.get() gives: a response with a status, or a transport error
Response(transport, status, body) ==
    [transport |-> transport, status |-> status, body |-> body]
NoBody == Body("none", <<>>)
ErrorStatuses == {401, 403, 429, 500}
Responses(d) ==
    { Response("ok", 200, b) : b \in Bodies(d) }
    \cup { Response("ok", s, NoBody) : s \in ErrorStatuses }
    \cup { Response("ClientError", 0, NoBody), Response("TimeoutError", 0, NoBody) }
AllResponses == UNION { Responses(d) : d \in AVAILABLE_SENSORS_DATA }

\* outcome of a call: a returned value or a raised exception
Return(v) == [k |-> "return", v |-> v, exc |-> "none"]
Raise(e) == [k |-> "raise", v |-> None, exc |-> e]

\* the enabled_sensors option: a list of distinct dataset ids (multi-select)
EnabledLists ==
    { s \in UNION { [1 .. n -> AVAILABLE_SENSORS_DATA] : n \in 0 .. 3 } :
        \A i \in DOMAIN s, j \in DOMAIN s : i # j => s[i] # s[j] }

\* ------------------------------------------------------------------- state
VARIABLES
    enabled_dataset_ids,   \* coordinator.enabled_dataset_ids
    pc,                    \* position of _async_update_data
    idx,                   \* position of the for loop in enabled_dataset_ids
    result,                \* local variable result
    data_results,          \* local dict data_results
    auth_failure_raised,   \* local flag auth_failure_raised
    outcome,               \* how the cycle ended
    returned,              \* the snapshot the cycle returned
    resp,                  \* what the API answers for each dataset this cycle
    fetched,               \* datasets whose request was sent, in order
    fetchLog,              \* what _async_fetch_dataset delivered, per dataset
    inflight,              \* datasets with a request in flight
    elapsed,               \* seconds since the last fetch attempt ended
    data,                  \* coordinator.data, the current snapshot
    last_update_success,   \* coordinator.last_update_success
    sensors,               \* per sensor: _attr_native_value, _attr_extra_state_attributes
    presented,             \* per sensor: the dataset_data its last update rendered
    ha_state,              \* per sensor: the state async_write_ha_state wrote
    configured_keys,       \* unique ids (API keys) of the config entries
    flow,                  \* the last call of async_step_user and its result
    hass_data_has_domain,  \* DOMAIN in hass.data
    hass_data_domain,      \* the entry ids that are keys of hass.data[DOMAIN]
    entry_state            \* per config entry: the state the host keeps for it

cycleVars == << pc, idx, result, data_results, auth_failure_raised, outcome,
                returned, resp, fetched, fetchLog, inflight, elapsed >>
sensorVars == << data, last_update_success, sensors, presented, ha_state >>
registryVars == << hass_data_has_domain, hass_data_domain, entry_state >>
hostVars == << configured_keys, flow, registryVars >>

\* number of config entries of the integration
NumEntries == 4
EntryIds == 1 .. NumEntries
vars == << enabled_dataset_ids, cycleVars, sensorVars, hostVars >>

EmptyDict == [d \in {} |-> None]
NoSnapshot == [k |-> "no_snapshot"]
DictSet(dict, key, val) ==
    [d \in (DOMAIN dict) \cup {key} |-> IF d = key THEN val ELSE dict[d]]

\* ------------------------------------------------- _async_fetch_dataset
\* FetchBody without the len(...) > 0 test: data[0] of an empty list raises
FetchBodyNoLenCheck(r) ==
    IF r.transport # "ok" THEN Raise(r.transport)
    ELSE IF r.status = 200 THEN
        IF r.body.shape = "not_json" THEN Raise("JSONDecodeError")
        ELSE IF r.body.shape = "object_data_list"
             THEN IF Len(r.body.data) > 0 THEN Return(r.body.data[1])
                  ELSE Raise("IndexError")
             ELSE Return(None)
    ELSE IF r.status \in {401, 403} THEN Raise("FingridApiAuthError")
    ELSE IF r.status = 429 THEN Raise("FingridApiRateLimitError")
    ELSE Raise("FingridApiError")

\* the body of the try block, lines 75-104
FetchBody(r) ==
    IF r.transport # "ok" THEN Raise(r.transport)
    ELSE IF r.status = 200 THEN
        IF r.body.shape = "not_json" THEN Raise("JSONDecodeError")
        ELSE IF r.body.shape = "object_data_list" /\ Len(r.body.data) > 0
             THEN Return(r.body.data[1])
             ELSE Return(None)
    ELSE IF r.status \in {401, 403} THEN Raise("FingridApiAuthError")
    ELSE IF r.status = 429 THEN Raise("FingridApiRateLimitError")
    ELSE Raise("FingridApiError")

\* the except clauses, lines 106-114: the raises of the try block are inside it
async_fetch_dataset(r) ==
    LET b == FetchBody(r) IN
    IF b.k = "return" THEN b
    ELSE IF b.exc = "ClientError" THEN Raise("FingridApiError")
    ELSE IF b.exc = "TimeoutError" THEN Raise("FingridApiError")
    ELSE Raise("FingridApiError")       \* except Exception

\* --------------------------------------------------- _async_update_data
CycleLocalsCleared ==
    /\ idx = 0
    /\ result = Unbound
    /\ data_results = EmptyDict
    /\ auth_failure_raised = FALSE

CycleIdle ==
    /\ pc = "idle"
    /\ CycleLocalsCleared
    /\ outcome = "none"
    /\ returned = NoSnapshot
    /\ resp = EmptyDict
    /\ fetched = <<>>
    /\ fetchLog = EmptyDict
    /\ inflight = {}
    /\ elapsed = 0

\* no config flow has run
NoFlow == [user_input |-> 0, response |-> Response("none", 0, NoBody),
           was_configured |-> FALSE, type |-> "none", errors |-> ""]
\* hass.data without the DOMAIN key, no entry set up
RegistryEmpty ==
    /\ hass_data_has_domain = FALSE
    /\ hass_data_domain = {}
    /\ entry_state = [e \in EntryIds |-> "not_loaded"]
HostIdle ==
    /\ configured_keys = {}
    /\ flow = NoFlow
    /\ RegistryEmpty

\* the coordinator after __init__, before any sensor exists
Init ==
    /\ enabled_dataset_ids \in EnabledLists
    /\ CycleIdle
    /\ HostIdle
    /\ data = None
    /\ last_update_success = TRUE
    /\ sensors = EmptyDict
    /\ presented = EmptyDict
    /\ ha_state = EmptyDict

\* a tick: the API's answers of this cycle are fixed, lines 119-130 run
StartCycle ==
    /\ UNCHANGED << sensorVars, hostVars >>
    /\ pc = "idle"
    /\ resp' \in { f \in [Range(enabled_dataset_ids) -> AllResponses] :
                     \A d \in DOMAIN f : f[d] \in Responses(d) }
    /\ pc' = "loop"
    /\ idx' = 1
    /\ result' = Unbound
    /\ data_results' = EmptyDict
    /\ auth_failure_raised' = FALSE
    /\ outcome' = "none"
    /\ returned' = NoSnapshot
    /\ fetched' = <<>>
    /\ fetchLog' = EmptyDict
    /\ inflight' = {}
    /\ elapsed' = 0
    /\ UNCHANGED enabled_dataset_ids

\* line 133: the request for the next dataset goes out
FetchStart ==
    /\ UNCHANGED << sensorVars, hostVars >>
    /\ pc = "loop"
    /\ idx <= Len(enabled_dataset_ids)
    /\ pc' = "await_fetch"
    /\ fetched' = Append(fetched, enabled_dataset_ids[idx])
    /\ inflight' = inflight \cup {enabled_dataset_ids[idx]}
    /\ UNCHANGED << enabled_dataset_ids, idx, result, data_results,
                    auth_failure_raised, outcome, returned, resp, fetchLog,
                    elapsed >>

\* lines 133-151: the fetch completes and the try statement handles it
FetchEnd ==
    /\ UNCHANGED << sensorVars, hostVars >>
    /\ pc = "await_fetch"
    /\ LET dataset_id == enabled_dataset_ids[idx]
           o == async_fetch_dataset(resp[dataset_id])
       IN
       /\ fetchLog' = DictSet(fetchLog, dataset_id, o)
       /\ inflight' = inflight \ {dataset_id}
       /\ elapsed' = 0
       /\ IF o.k = "raise" /\ o.exc = "FingridApiAuthError" THEN
             IF ~auth_failure_raised
             THEN /\ outcome' = "ConfigEntryAuthFailed"
                  /\ pc' = "done"
                  /\ UNCHANGED << result, data_results, auth_failure_raised >>
             ELSE /\ auth_failure_raised' = TRUE
                  /\ data_results' = DictSet(data_results, dataset_id, None)
                  /\ pc' = "sleep"
                  /\ UNCHANGED << result, outcome >>
          ELSE IF o.k = "raise" THEN
             \* FingridApiRateLimitError, FingridApiError, Exception
             /\ data_results' = DictSet(data_results, dataset_id, None)
             /\ pc' = "sleep"
             /\ UNCHANGED << result, auth_failure_raised, outcome >>
          ELSE
             /\ result' = o.v
             /\ data_results' = DictSet(data_results, dataset_id, o.v)
             /\ pc' = "sleep"
             /\ UNCHANGED << auth_failure_raised, outcome >>
    /\ UNCHANGED << enabled_dataset_ids, idx, returned, resp, fetched >>

\* Sleep with the delay left out
SleepNoDelay ==
    /\ UNCHANGED << sensorVars, hostVars >>
    /\ pc = "sleep"
    /\ pc' = "post"
    /\ UNCHANGED << enabled_dataset_ids, idx, result, data_results,
                    auth_failure_raised, outcome, returned, resp, fetched,
                    fetchLog, inflight, elapsed >>

\* line 153: await asyncio.sleep(7)
Sleep ==
    /\ UNCHANGED << sensorVars, hostVars >>
    /\ pc = "sleep"
    /\ elapsed' = elapsed + PacingDelay
    /\ pc' = "post"
    /\ UNCHANGED << enabled_dataset_ids, idx, result, data_results,
                    auth_failure_raised, outcome, returned, resp, fetched,
                    fetchLog, inflight >>

\* result never holds an exception object: the fetch returns a dict or None
IsException(v) == FALSE

\* lines 155-174: the second look at result, after the delay
PostProcess ==
    /\ UNCHANGED << sensorVars, hostVars >>
    /\ pc = "post"
    /\ LET dataset_id == enabled_dataset_ids[idx] IN
       IF result = Unbound THEN
          \* reading a local that was never assigned: UnboundLocalError
          /\ outcome' = "UnboundLocalError"
          /\ pc' = "done"
          /\ UNCHANGED << idx, data_results >>
       ELSE IF IsException(result) THEN
          /\ data_results' = DictSet(data_results, dataset_id, None)
          /\ idx' = idx + 1
          /\ pc' = "loop"
          /\ UNCHANGED outcome
       ELSE IF result # None THEN
          /\ data_results' = DictSet(data_results, dataset_id, result)
          /\ idx' = idx + 1
          /\ pc' = "loop"
          /\ UNCHANGED outcome
       ELSE
          /\ data_results' = DictSet(data_results, dataset_id, None)
          /\ idx' = idx + 1
          /\ pc' = "loop"
          /\ UNCHANGED outcome
    /\ UNCHANGED << enabled_dataset_ids, result, auth_failure_raised, returned,
                    resp, fetched, fetchLog, inflight, elapsed >>

\* the end of the loop without the test of enabled_dataset_ids in line 176
FinishNoEnabledTest ==
    /\ UNCHANGED << sensorVars, hostVars >>
    /\ pc = "loop"
    /\ idx > Len(enabled_dataset_ids)
    /\ pc' = "done"
    /\ IF data_results = EmptyDict /\ ~auth_failure_raised
       THEN /\ outcome' = "NameError"
            /\ UNCHANGED returned
       ELSE /\ outcome' = "returned"
            /\ returned' = data_results
    /\ UNCHANGED << enabled_dataset_ids, idx, result, data_results,
                    auth_failure_raised, resp, fetched, fetchLog, inflight,
                    elapsed >>

\* lines 176-184: the loop is over
Finish ==
    /\ UNCHANGED << sensorVars, hostVars >>
    /\ pc = "loop"
    /\ idx > Len(enabled_dataset_ids)
    /\ pc' = "done"
    /\ IF data_results = EmptyDict /\ enabled_dataset_ids # <<>>
          /\ ~auth_failure_raised
       THEN \* line 180 reads the name results, which is not defined
            /\ outcome' = "NameError"
            /\ UNCHANGED returned
       ELSE /\ outcome' = "returned"
            /\ returned' = data_results
    /\ UNCHANGED << enabled_dataset_ids, idx, result, data_results,
                    auth_failure_raised, resp, fetched, fetchLog, inflight,
                    elapsed >>

\* the call is over: its locals are gone and the coordinator waits for a tick
CycleDone ==
    /\ UNCHANGED << sensorVars, hostVars >>
    /\ pc = "done"
    /\ pc' = "idle"
    /\ idx' = 0
    /\ result' = Unbound
    /\ data_results' = EmptyDict
    /\ auth_failure_raised' = FALSE
    /\ outcome' = "none"
    /\ returned' = NoSnapshot
    /\ resp' = EmptyDict
    /\ fetched' = <<>>
    /\ fetchLog' = EmptyDict
    /\ inflight' = {}
    /\ elapsed' = 0
    /\ UNCHANGED enabled_dataset_ids

Next ==
    \/ StartCycle
    \/ FetchStart
    \/ FetchEnd
    \/ Sleep
    \/ PostProcess
    \/ Finish
    \/ CycleDone

Spec == Init /\ [][Next]_vars

TypeOK ==
    /\ pc \in {"idle", "loop", "await_fetch", "sleep", "post", "done"}
    /\ idx \in 0 .. 4

\* ================================================================ sensor.py
POWER_SYSTEM_STATE_MAP ==
    [n \in 1 .. 5 |->
        CASE n = 1 -> "Normal"
          [] n = 2 -> "Endangered"
          [] n = 3 -> "Disturbed"
          [] n = 4 -> "Blackout"
          [] n = 5 -> "Restoration"]
POWER_SYSTEM_STATE_UNKNOWN == "Unknown"

ELECTRICITY_SHORTAGE_STATUS_MAP ==
    [n \in 0 .. 3 |->
        CASE n = 0 -> "Normal"
          [] n = 1 -> "Electricity shortage possible"
          [] n = 2 -> "High risk of electricity shortage"
          [] n = 3 -> "Electricity shortage"]
ELECTRICITY_SHORTAGE_STATUS_UNKNOWN == "Unknown"

\* dict.get(key, default) on a table
MapGet(map, n, default) == IF n \in DOMAIN map THEN map[n] ELSE default

\* isinstance(v, (int, float)): in Python bool is a subclass of int
IsNumber(v) == v # None /\ v.t \in {"int", "float", "bool"}
\* int(v): a float (held in tenths) is truncated toward zero, True is 1
IntOf(v) ==
    IF v.t \in {"int", "bool"} THEN v.n
    ELSE IF v.n >= 0 THEN v.n \div 10 ELSE -((-v.n) \div 10)

\* dataset_data.get("value"): the value, or None when the key is missing
GetValue(dataset_data) ==
    IF dataset_data.value = Missing THEN None ELSE dataset_data.value

\* the values of "value" the sensors are shown: the table keys, an unmapped
\* code, a float, a string, a boolean, null, and no key at all
SensorValues ==
    { IntVal(n) : n \in (0 .. 5) \cup {99} }
    \cup { FloatVal(27), StrVal("n/a"), BoolVal(1), None, Missing }
SensorTimes == { TimeVal(t) : t \in Times } \cup { Missing }
SensorObservations(d) ==
    { Obs(d, v, st, en) : v \in SensorValues, st \in SensorTimes, en \in SensorTimes }

\* a sensor object: _attr_native_value and _attr_extra_state_attributes
EmptyAttributes == [raw_value |-> Missing, api_timestamp |-> Missing]
Sensor(native, attrs) ==
    [native_value |-> native, extra_state_attributes |-> attrs]
\* __init__: no native value, extra attributes {}
NewSensor == Sensor(None, EmptyAttributes)

\* FingridSensor._update_state, also FingridGridFrequencySensor's
BaseUpdateState(self, dataset_data) ==
    Sensor(GetValue(dataset_data),
           IF dataset_data.endTime # Missing
           THEN [self.extra_state_attributes EXCEPT
                    !.api_timestamp = dataset_data.endTime]
           ELSE IF dataset_data.startTime # Missing
           THEN [self.extra_state_attributes EXCEPT
                    !.api_timestamp = dataset_data.startTime]
           ELSE self.extra_state_attributes)

\* PowerSystemUpdateState with raw_value taken from the state the sensor had
\* before the update instead of from the new value
PowerSystemUpdateStatePrevRaw(self, dataset_data) ==
    LET current_value == GetValue(dataset_data) IN
    IF IsNumber(current_value)
    THEN Sensor(StrVal(MapGet(POWER_SYSTEM_STATE_MAP, IntOf(current_value),
                              POWER_SYSTEM_STATE_UNKNOWN)),
                [self.extra_state_attributes EXCEPT
                    !.raw_value = self.native_value])
    ELSE Sensor(StrVal(POWER_SYSTEM_STATE_UNKNOWN), self.extra_state_attributes)

\* FingridPowerSystemStateSensor._update_state: the override does not call
\* the base method
PowerSystemUpdateState(self, dataset_data) ==
    LET current_value == GetValue(dataset_data) IN
    IF IsNumber(current_value)
    THEN Sensor(StrVal(MapGet(POWER_SYSTEM_STATE_MAP, IntOf(current_value),
                              POWER_SYSTEM_STATE_UNKNOWN)),
                [self.extra_state_attributes EXCEPT
                    !.raw_value = IntVal(IntOf(current_value))])
    ELSE Sensor(StrVal(POWER_SYSTEM_STATE_UNKNOWN), self.extra_state_attributes)

\* FingridElectricityShortageSensor._update_state
ShortageUpdateState(self, dataset_data) ==
    LET current_value == GetValue(dataset_data) IN
    IF IsNumber(current_value)
    THEN Sensor(StrVal(MapGet(ELECTRICITY_SHORTAGE_STATUS_MAP, IntOf(current_value),
                              ELECTRICITY_SHORTAGE_STATUS_UNKNOWN)),
                [self.extra_state_attributes EXCEPT
                    !.raw_value = IntVal(IntOf(current_value))])
    ELSE Sensor(StrVal(ELECTRICITY_SHORTAGE_STATUS_UNKNOWN),
                self.extra_state_attributes)

\* the class async_setup_entry creates for a dataset decides the method
UpdateState(d, self, dataset_data) ==
    IF d = DATASET_ID_POWER_SYSTEM_STATE
    THEN PowerSystemUpdateState(self, dataset_data)
    ELSE IF d = DATASET_ID_ELECTRICITY_SHORTAGE_STATUS
    THEN ShortageUpdateState(self, dataset_data)
    ELSE BaseUpdateState(self, dataset_data)

\* truth value of a dict or None
Truthy(dict) == dict # None /\ DOMAIN dict # {}

\* the test of _handle_coordinator_update: does it call _update_state
HasValueFor(d, snapshot) ==
    /\ Truthy(snapshot)
    /\ d \in DOMAIN snapshot
    /\ snapshot[d] # None
    /\ snapshot[d].value # Missing

\* available without the test for a None entry
AvailableNoNoneCheck(d, snapshot, success) ==
    /\ success
    /\ snapshot # None
    /\ d \in DOMAIN snapshot

\* FingridSensor.available
Available(d, snapshot, success) ==
    /\ success
    /\ snapshot # None
    /\ d \in DOMAIN snapshot
    /\ snapshot[d] # None

Unavailable == StrVal("unavailable")

\* FingridSensor._handle_coordinator_update of the sensor of dataset d:
\* the sensor after it
HandleCoordinatorUpdate(d, self, snapshot) ==
    IF HasValueFor(d, snapshot)
    THEN UpdateState(d, self, snapshot[d])
    ELSE self

\* async_write_ha_state: an unavailable entity is written as unavailable
WrittenState(d, self, snapshot, success) ==
    IF Available(d, snapshot, success) THEN self.native_value ELSE Unavailable

\* the snapshots a cycle over list can return
Snapshots(list) ==
    { f \in [Range(list) -> {None} \cup UNION { SensorObservations(d) : d \in Range(list) }] :
        \A d \in DOMAIN f : f[d] = None \/ f[d].datasetId = d }

\* an installation with one enabled dataset and its sensor
SingleSensorLists == { <<d>> : d \in AVAILABLE_SENSORS_DATA }

\* after async_setup_entry: the first refresh has stored its snapshot and the
\* sensors of the enabled datasets were added
SensorInit ==
    /\ enabled_dataset_ids \in SingleSensorLists
    /\ CycleIdle
    /\ HostIdle
    /\ data \in Snapshots(enabled_dataset_ids)
    /\ last_update_success = TRUE
    /\ sensors = [d \in Range(enabled_dataset_ids) |-> NewSensor]
    /\ presented = [d \in Range(enabled_dataset_ids) |-> None]
    /\ ha_state = [d \in Range(enabled_dataset_ids) |->
                      WrittenState(d, NewSensor, data, TRUE)]

\* the listeners run: every sensor handles the update and writes its state
NotifyListeners(snapshot, success) ==
    /\ sensors' = [d \in DOMAIN sensors |->
                      HandleCoordinatorUpdate(d, sensors[d], snapshot)]
    /\ presented' = [d \in DOMAIN sensors |->
                      IF HasValueFor(d, snapshot) THEN snapshot[d] ELSE None]
    /\ ha_state' = [d \in DOMAIN sensors |->
                      WrittenState(d, sensors'[d], snapshot, success)]

\* a poll cycle returned snapshot: the coordinator stores it and notifies
RefreshSuccess ==
    /\ pc = "idle"
    /\ \E snapshot \in Snapshots(enabled_dataset_ids) :
          /\ data' = snapshot
          /\ last_update_success' = TRUE
          /\ NotifyListeners(snapshot, TRUE)
    /\ UNCHANGED << enabled_dataset_ids, cycleVars, hostVars >>

\* a poll cycle raised: the data stays, the listeners hear of the first failure
RefreshFailure ==
    /\ pc = "idle"
    /\ last_update_success' = FALSE
    /\ IF last_update_success
       THEN NotifyListeners(data, FALSE)
       ELSE UNCHANGED << sensors, presented, ha_state >>
    /\ UNCHANGED << enabled_dataset_ids, cycleVars, data, hostVars >>

SensorNext ==
    \/ RefreshSuccess
    \/ RefreshFailure

SensorSpec == SensorInit /\ [][SensorNext]_vars

\* ------------------------------------------------------------------ claims
\* what a response is, read off the HTTP exchange alone
IsAuthResponse(r) == r.transport = "ok" /\ r.status \in {401, 403}
IsDataResponse(r) ==
    /\ r.transport = "ok"
    /\ r.status = 200
    /\ r.body.shape = "object_data_list"
    /\ Len(r.body.data) > 0
IsJsonNoDataResponse(r) ==
    /\ r.transport = "ok"
    /\ r.status = 200
    /\ r.body.shape # "not_json"
    /\ ~IsDataResponse(r)
IsAbsentOutcome(o) ==
    \/ o.k = "raise" /\ o.exc \in {"FingridApiRateLimitError", "FingridApiError"}
    \/ o.k = "return" /\ o.v = None

\* C1: once a fetch of the cycle has met a 401 or 403 the cycle is over with
\* ConfigEntryAuthFailed: that fetch is the last one sent and no snapshot is
\* returned.
C1_AuthEndsCycle ==
    \A d \in DOMAIN fetchLog :
        IsAuthResponse(resp[d]) =>
            /\ pc = "done"
            /\ outcome = "ConfigEntryAuthFailed"
            /\ returned = NoSnapshot
            /\ fetched[Len(fetched)] = d

\* C2: the failure kind _async_fetch_dataset delivers follows the HTTP status:
\* 401/403 the auth kind, 429 the rate-limit kind, any other non-200 the
\* generic kind.
C2_ErrorKindByStatus ==
    \A d \in DOMAIN fetchLog :
        LET r == resp[d]
            o == fetchLog[d]
        IN  (r.transport = "ok" /\ r.status # 200) =>
                /\ o.k = "raise"
                /\ o.exc = IF r.status \in {401, 403} THEN "FingridApiAuthError"
                           ELSE IF r.status = 429 THEN "FingridApiRateLimitError"
                           ELSE "FingridApiError"

\* C3: in a returned snapshot the entry of every enabled dataset is what its
\* own fetch returned in this cycle, and None if that fetch failed or had no
\* data; three datasets of which one answers 429 and two answer data give a
\* snapshot with one None and two observations.
C3_SnapshotEntries ==
    pc = "done" =>
        /\ outcome = "returned" =>
              \A d \in Range(enabled_dataset_ids) :
                  /\ d \in DOMAIN returned
                  /\ d \in DOMAIN fetchLog
                  /\ returned[d] = IF fetchLog[d].k = "return"
                                   THEN fetchLog[d].v ELSE None
        /\ ( /\ Len(enabled_dataset_ids) = 3
             /\ Cardinality({ d \in DOMAIN resp :
                    resp[d].transport = "ok" /\ resp[d].status = 429 }) = 1
             /\ Cardinality({ d \in DOMAIN resp : IsDataResponse(resp[d]) }) = 2 )
           => /\ outcome = "returned"
              /\ Cardinality({ d \in DOMAIN returned : returned[d] = None }) = 1
              /\ Cardinality({ d \in DOMAIN returned : returned[d] # None }) = 2

\* C4: a cycle in which no response is a 401 or 403 fetches every enabled
\* dataset exactly once, in the order of the list.
C4_EveryDatasetFetched ==
    ( /\ pc = "done"
      /\ \A d \in DOMAIN resp : ~IsAuthResponse(resp[d]) )
    => fetched = enabled_dataset_ids

\* C5: a cycle over a non-empty list in which every dataset ended absent and no
\* auth escalation happened raises UpdateFailed and returns no snapshot.
C5_AllAbsentRaisesUpdateFailed ==
    ( /\ pc = "done"
      /\ enabled_dataset_ids # <<>>
      /\ DOMAIN fetchLog = Range(enabled_dataset_ids)
      /\ \A d \in DOMAIN fetchLog :
            IsAbsentOutcome(fetchLog[d]) /\ ~IsAuthResponse(resp[d])
      /\ outcome # "ConfigEntryAuthFailed" )
    => /\ outcome = "UpdateFailed"
       /\ returned = NoSnapshot

\* C6: a cycle in which at least one enabled dataset answers with data and none
\* answers 401 or 403 ends by returning a snapshot.
C6_PartialSnapshotReturned ==
    ( /\ pc = "done"
      /\ \E d \in DOMAIN resp : IsDataResponse(resp[d])
      /\ \A d \in DOMAIN resp : ~IsAuthResponse(resp[d]) )
    => outcome = "returned"

C8_SequentialAndPaced ==
    /\ Cardinality(inflight) <= 1
    /\ (pc = "await_fetch" /\ idx > 1) => elapsed >= PacingDelay

C8_Witness ==
    /\ pc = "await_fetch"
    /\ idx = 3
    /\ fetchLog[enabled_dataset_ids[2]].k = "raise"
    /\ elapsed = PacingDelay
    /\ Cardinality(inflight) = 1

\* the timestamp a presenter is to surface for an observation
ObservationTimestamp(o) == IF o.endTime # Missing THEN o.endTime ELSE o.startTime
IsAbsentFor(d) == data = None \/ d \notin DOMAIN data \/ data[d] = None

\* C9: a sensor whose dataset has no observation in the current snapshot (or
\* with no snapshot at all) is not available and was written as unavailable,
\* whatever value it holds from earlier snapshots.
C9_AbsentIsUnavailable ==
    \A d \in DOMAIN sensors :
        IsAbsentFor(d) =>
            /\ ~Available(d, data, last_update_success)
            /\ ha_state[d] = Unavailable

C9_Witness ==
    \E d \in DOMAIN sensors :
        /\ last_update_success
        /\ data # None /\ d \in DOMAIN data /\ data[d] = None
        /\ sensors[d].native_value # None
        /\ ha_state[d] = Unavailable

\* C10: after an update from an observation with a value, every sensor type
\* has api_timestamp equal to the observation's endTime, or to its startTime
\* when endTime is missing; a power-system observation with value 4 renders
\* state Blackout, raw_value 4 and api_timestamp = endTime.
C10_TimestampSurfaced ==
    \A d \in DOMAIN sensors :
        presented[d] # None =>
            /\ (presented[d].endTime # Missing \/ presented[d].startTime # Missing)
                => sensors[d].extra_state_attributes.api_timestamp
                      = ObservationTimestamp(presented[d])
            /\ ( /\ d = DATASET_ID_POWER_SYSTEM_STATE
                 /\ presented[d].value = IntVal(4)
                 /\ presented[d].endTime # Missing )
                => /\ sensors[d].native_value = StrVal("Blackout")
                   /\ sensors[d].extra_state_attributes.raw_value = IntVal(4)
                   /\ sensors[d].extra_state_attributes.api_timestamp
                         = presented[d].endTime

\* C11: the presenters are stateless: after a delivery of a snapshot every
\* sensor's state and attributes equal those of a freshly created sensor of
\* its type that received only this snapshot.
C11_Stateless ==
    [][ (RefreshSuccess \/ (RefreshFailure /\ last_update_success)) =>
          \A d \in DOMAIN sensors :
              sensors'[d] = HandleCoordinatorUpdate(d, NewSensor, data') ]_vars

\* the claim's reading of a value: a JSON number, truncated toward zero
IsJsonNumber(v) == v # None /\ v.t \in {"int", "float"}
Truncated(v) ==
    IF v.t = "int" THEN v.n
    ELSE IF v.n >= 0 THEN v.n \div 10 ELSE -((-v.n) \div 10)
LabelTable(d) ==
    IF d = DATASET_ID_POWER_SYSTEM_STATE
    THEN POWER_SYSTEM_STATE_MAP ELSE ELECTRICITY_SHORTAGE_STATUS_MAP
CategoricalDatasets ==
    { DATASET_ID_POWER_SYSTEM_STATE, DATASET_ID_ELECTRICITY_SHORTAGE_STATUS }

\* C12: a categorical sensor renders a numeric value, truncated to the integer
\* n, as the label of n in its table with raw_value = n; an integer outside
\* the table and any non-numeric value render "Unknown".
C12_CategoricalDecode ==
    \A d \in DOMAIN sensors \cap CategoricalDatasets :
        presented[d] # None =>
            LET v == presented[d].value IN
            IF IsJsonNumber(v)
            THEN /\ sensors[d].native_value =
                       IF Truncated(v) \in DOMAIN LabelTable(d)
                       THEN StrVal(LabelTable(d)[Truncated(v)])
                       ELSE StrVal("Unknown")
                 /\ sensors[d].extra_state_attributes.raw_value
                       = IntVal(Truncated(v))
            ELSE sensors[d].native_value = StrVal("Unknown")

\* C13: presentation is idempotent: for every sensor, in whatever state it is,
\* and every snapshot S, delivering S a second time leaves the state, the
\* attributes and the written state as they were after the first delivery.
C13_Idempotent ==
    \A d \in DOMAIN sensors :
        \A S \in Snapshots(enabled_dataset_ids) :
            LET once == HandleCoordinatorUpdate(d, sensors[d], S)
                twice == HandleCoordinatorUpdate(d, once, S)
            IN  /\ twice = once
                /\ WrittenState(d, twice, S, TRUE) = WrittenState(d, once, S, TRUE)

C13_Witness ==
    \E d \in DOMAIN sensors :
        /\ presented[d] # None
        /\ presented[d] = data[d]
        /\ sensors[d].native_value # None
        /\ sensors[d].extra_state_attributes # EmptyAttributes
        /\ HandleCoordinatorUpdate(d, sensors[d], data) = sensors[d]

\* =========================================================== config_flow.py
\* number of distinct API keys a user may enter
NumKeys == 3
ApiKeys == 1 .. NumKeys

\* what the validation request of async_step_user can meet
ValidationStatuses == {200, 401, 403, 404, 429, 500}
ValidationResponses ==
    { Response("ok", st, NoBody) : st \in ValidationStatuses }
    \cup { Response("ClientError", 0, NoBody), Response("TimeoutError", 0, NoBody) }

\* the result of a flow step: a form with errors["base"], or a created entry
FlowResult(type, errors) == [type |-> type, errors |-> errors]

\* async_step_user with only 401 taken as an invalid key
async_step_user_only_401(api_key, r, keys) ==
    IF r.transport # "ok" THEN FlowResult("form", "cannot_connect")
    ELSE IF r.status = 200 THEN
        IF api_key \in keys
        THEN FlowResult("form", "unknown")
        ELSE FlowResult("create_entry", "")
    ELSE IF r.status = 401 THEN FlowResult("form", "invalid_api_key")
    ELSE FlowResult("form", "cannot_connect")

\* async_step_user with user_input = {"api_key": api_key}, lines 37-70, when
\* the validation request meets r and keys are the unique ids configured.
\* _abort_if_unique_id_configured raises AbortFlow inside the try block, and
\* the clause except Exception of line 64 catches it.
async_step_user(api_key, r, keys) ==
    IF r.transport # "ok" THEN FlowResult("form", "cannot_connect")
    ELSE IF r.status = 200 THEN
        IF api_key \in keys
        THEN FlowResult("form", "unknown")
        ELSE FlowResult("create_entry", "")
    ELSE IF r.status \in {401, 403} THEN FlowResult("form", "invalid_api_key")
    ELSE FlowResult("form", "cannot_connect")

ConfigFlowInit ==
    /\ enabled_dataset_ids = << DATASET_ID_POWER_SYSTEM_STATE >>
    /\ CycleIdle
    /\ HostIdle
    /\ data = None
    /\ last_update_success = TRUE
    /\ sensors = EmptyDict
    /\ presented = EmptyDict
    /\ ha_state = EmptyDict

\* async_step_user(None): the form is shown, lines 36-37 and 68-70
ShowUserForm ==
    /\ flow' = [NoFlow EXCEPT !.type = "form"]
    /\ UNCHANGED << enabled_dataset_ids, cycleVars, sensorVars, configured_keys,
                    registryVars >>

\* async_step_user(user_input): the key is validated; a created entry is
\* stored under its unique id
SubmitApiKey ==
    /\ \E api_key \in ApiKeys, r \in ValidationResponses :
          LET res == async_step_user(api_key, r, configured_keys) IN
          /\ flow' = [user_input |-> api_key, response |-> r,
                      was_configured |-> api_key \in configured_keys,
                      type |-> res.type, errors |-> res.errors]
          /\ configured_keys' = IF res.type = "create_entry"
                                THEN configured_keys \cup {api_key}
                                ELSE configured_keys
    /\ UNCHANGED << enabled_dataset_ids, cycleVars, sensorVars, registryVars >>

ConfigFlowNext ==
    \/ ShowUserForm
    \/ SubmitApiKey

ConfigFlowSpec == ConfigFlowInit /\ [][ConfigFlowNext]_vars

FlowSubmitted == flow.user_input # 0
FlowCreatedEntry ==
    /\ flow.type = "create_entry"
    /\ flow.user_input \in configured_keys
    /\ ~flow.was_configured
FlowRejected(error) ==
    /\ flow.type = "form"
    /\ flow.errors = error
    /\ flow.was_configured = (flow.user_input \in configured_keys)

async_setup_entry(e, first_refresh_ok) ==
    /\ entry_state[e] \in {"not_loaded", "setup_retry"}
    /\ hass_data_has_domain' = TRUE
    /\ IF first_refresh_ok
       THEN /\ hass_data_domain' = hass_data_domain \cup {e}
            /\ entry_state' = [entry_state EXCEPT ![e] = "loaded"]
       ELSE /\ hass_data_domain' = hass_data_domain
            /\ entry_state' = [entry_state EXCEPT ![e] = "setup_retry"]

\* async_unload_entry of entry e, lines 48-65: when the platforms unloaded,
\* the coordinator is deleted and with the last one the DOMAIN map
async_unload_entry(e, unload_ok) ==
    /\ entry_state[e] = "loaded"
    /\ IF unload_ok
       THEN /\ IF hass_data_has_domain /\ e \in hass_data_domain
               THEN /\ hass_data_domain' = hass_data_domain \ {e}
                    /\ hass_data_has_domain' = (hass_data_domain \ {e} # {})
               ELSE UNCHANGED << hass_data_has_domain, hass_data_domain >>
            /\ entry_state' = [entry_state EXCEPT ![e] = "not_loaded"]
       ELSE /\ UNCHANGED << hass_data_has_domain, hass_data_domain >>
            /\ entry_state' = [entry_state EXCEPT ![e] = "failed_unload"]

RegistryInit ==
    /\ enabled_dataset_ids = << DATASET_ID_POWER_SYSTEM_STATE >>
    /\ CycleIdle
    /\ HostIdle
    /\ data = None
    /\ last_update_success = TRUE
    /\ sensors = EmptyDict
    /\ presented = EmptyDict
    /\ ha_state = EmptyDict

SetupEntry ==
    /\ \E e \in EntryIds, first_refresh_ok \in BOOLEAN :
          async_setup_entry(e, first_refresh_ok)
    /\ UNCHANGED << enabled_dataset_ids, cycleVars, sensorVars, configured_keys,
                    flow >>

UnloadEntry ==
    /\ \E e \in EntryIds, unload_ok \in BOOLEAN :
          async_unload_entry(e, unload_ok)
    /\ UNCHANGED << enabled_dataset_ids, cycleVars, sensorVars, configured_keys,
                    flow >>

RegistryNext ==
    \/ SetupEntry
    \/ UnloadEntry

RegistrySpec == RegistryInit /\ [][RegistryNext]_vars

\* the entry's latest setup succeeded and it was not successfully unloaded since
EntryIsSetUp(e) == entry_state[e] \in {"loaded", "failed_unload"}

\* C16: hass.data[DOMAIN] holds a coordinator under entry_id exactly when the
\* entry's latest setup succeeded and it has not been successfully unloaded
\* since, and the DOMAIN key never holds an empty map.
C16_RegistryMatchesEntries ==
    /\ \A e \in EntryIds :
          (hass_data_has_domain /\ e \in hass_data_domain) <=> EntryIsSetUp(e)
    /\ ~(hass_data_has_domain /\ hass_data_domain = {})

\* --------------------------------------------- unload during a poll cycle
\* the installation whose coordinator is followed, and the entries beside it
FocusEntry == 1

\* the installations followed have one or two sensors enabled
UnloadLists == { l \in EnabledLists : Len(l) \in {1, 2} }

\* the answers of the API in these cycles: one observation, none, or a 429
TickResponses(d) ==
    { Response("ok", 200, Body("object_data_list", l)) :
          l \in { x \in DataLists(d) : Len(x) <= 1 } }
    \cup { Response("ok", 429, NoBody) }

\* after async_setup_entry of the entry: its coordinator is registered and
\* holds the snapshot of the first refresh
UnloadInit ==
    /\ enabled_dataset_ids \in UnloadLists
    /\ CycleIdle
    /\ configured_keys = {}
    /\ flow = NoFlow
    /\ hass_data_has_domain = TRUE
    /\ hass_data_domain = {FocusEntry}
    /\ entry_state = [e \in EntryIds |->
                         IF e = FocusEntry THEN "loaded" ELSE "not_loaded"]
    /\ data = [d \in Range(enabled_dataset_ids) |-> None]
    /\ last_update_success = TRUE
    /\ sensors = EmptyDict
    /\ presented = EmptyDict
    /\ ha_state = EmptyDict

\* the coordinator of a set-up entry is refreshed (interval or request)
TickStart ==
    /\ EntryIsSetUp(FocusEntry)
    /\ StartCycle
    /\ \A d \in DOMAIN resp' : resp'[d] \in TickResponses(d)

\* _async_update_data is over: the host stores a returned snapshot as the
\* coordinator's data, or marks the failure, and runs the listeners
StoreResult ==
    /\ pc = "done"
    /\ IF outcome = "returned"
       THEN /\ data' = returned
            /\ last_update_success' = TRUE
            /\ NotifyListeners(returned, TRUE)
       ELSE /\ last_update_success' = FALSE
            /\ UNCHANGED data
            /\ IF last_update_success
               THEN NotifyListeners(data, FALSE)
               ELSE UNCHANGED << sensors, presented, ha_state >>
    /\ pc' = "idle"
    /\ idx' = 0
    /\ result' = Unbound
    /\ data_results' = EmptyDict
    /\ auth_failure_raised' = FALSE
    /\ outcome' = "none"
    /\ returned' = NoSnapshot
    /\ resp' = EmptyDict
    /\ fetched' = <<>>
    /\ fetchLog' = EmptyDict
    /\ inflight' = {}
    /\ elapsed' = 0
    /\ UNCHANGED << enabled_dataset_ids, hostVars >>

\* async_unload_entry of the entry, lines 48-65. Nothing in it, and nothing in
\* the coordinator, stops a running _async_update_data; whether the host
\* cancels the task of the cycle depends on how the refresh was started
\* (a refresh on request is not a task of the entry), so both happen.
UnloadFocusEntry ==
    /\ \E unload_ok \in BOOLEAN : async_unload_entry(FocusEntry, unload_ok)
    /\ \E host_cancels \in BOOLEAN :
          IF host_cancels /\ pc # "idle" /\ entry_state'[FocusEntry] = "not_loaded"
          THEN /\ pc' = "idle"
               /\ idx' = 0
               /\ result' = Unbound
               /\ data_results' = EmptyDict
               /\ auth_failure_raised' = FALSE
               /\ outcome' = "none"
               /\ returned' = NoSnapshot
               /\ resp' = EmptyDict
               /\ fetched' = <<>>
               /\ fetchLog' = EmptyDict
               /\ inflight' = {}
               /\ elapsed' = 0
          ELSE UNCHANGED cycleVars
    /\ UNCHANGED << enabled_dataset_ids, sensorVars, configured_keys, flow >>

UnloadNext ==
    \/ TickStart
    \/ FetchStart
    \/ FetchEnd
    \/ Sleep
    \/ PostProcess
    \/ Finish
    \/ StoreResult
    \/ UnloadFocusEntry

UnloadSpec == UnloadInit /\ [][UnloadNext]_vars

\* the installation was torn down: its unload has completed
TornDown == entry_state[FocusEntry] = "not_loaded"

\* C15: once the unload of an installation has completed, a poll cycle of its
\* coordinator that was in flight issues no further fetch and no snapshot of
\* it replaces the coordinator's data.
C15_AbandonedAfterUnload ==
    [][ TornDown => (Len(fetched') <= Len(fetched) /\ data' = data) ]_vars

\* ------------------------------------------------- no sensor is enabled
\* C17: with an empty enabled dataset list a poll cycle issues no fetch and no
\* pacing delay and returns an empty snapshot; it raises neither the
\* cycle-level failure nor the re-authentication signal (nor anything else).
C17_EmptyListEmptySnapshot ==
    enabled_dataset_ids = <<>> =>
        /\ fetched = <<>>
        /\ inflight = {}
        /\ elapsed = 0
        /\ pc \notin {"await_fetch", "sleep", "post"}
        /\ ~auth_failure_raised
        /\ outcome \in {"none", "returned"}
        /\ pc = "done" => (outcome = "returned" /\ returned = EmptyDict)

\* a cycle over the empty list has ended
C17_Witness ==
    /\ enabled_dataset_ids = <<>>
    /\ pc = "done"
    /\ returned = EmptyDict
====
